---------------------------- MODULE Spec2Model ----------------------------
(***************************************************************************)
(* The sqlite span reader of teletrace                                     *)
(* (plugin/spanreader/sqlite/span_reader.go): Search with its continuation *)
(* token, GetAvailableTags, GetTagValues and the batch GetTagsValues, run  *)
(* against a prepared-statement capability (database/sql) whose context    *)
(* can be cancelled while a call is in flight.                             *)
(*                                                                         *)
(* buildSearchQuery, buildTagValuesQuery, buildDynamicTagsQuery and        *)
(* staticTagTypeMap live in other files of the package; they are modelled  *)
(* from the design specification (sections 4.1 to 4.4).                    *)
(***************************************************************************)
EXTENDS Naturals, Sequences, FiniteSets, TLC

VARIABLES
    endpoint,   \* the kind of request this caller issues
    pc,         \* position of the call in flight: idle, prepare, query, rows
    ctxDone,    \* the request context has been cancelled
    cancelAt,   \* history: the position at which the context was cancelled
    stmtOpen,   \* prepared statements currently open
    rowsOpen,   \* row cursors currently open
    stmtAcq,    \* statements acquired by the current (or last) call
    rowsAcq,    \* row cursors acquired by the current (or last) call
    rows,       \* rows the open cursor has not delivered yet
    yielded,    \* history: rows the cursor delivered to Scan in this call
    ret,        \* outcome of the last call that returned
    store,      \* the spans table, in insertion order
    req,        \* the SearchRequest of the call in flight (or of the last)
    spans,      \* result.Spans: ids of the spans decoded so far
    meta,       \* result.Metadata: the next token, when present
    prevPage,   \* history: the page whose token the call in flight follows
    sess,       \* history: the pagination run the caller is following
    tags,       \* tags.Tags of GetAvailableTags
    tagList,    \* the tags argument of GetTagsValues
    tagIdx,     \* index in tagList of the tag being looked up
    values,     \* currentTagValues of GetTagValues
    result,     \* the result map of GetTagsValues
    lookups     \* history: the GetTagValues calls made, each with its outcome

vars == <<endpoint, pc, ctxDone, cancelAt, stmtOpen, rowsOpen, stmtAcq,
          rowsAcq, rows, yielded, ret, store, req, spans, meta, prevPage,
          sess, tags, tagList, tagIdx, values, result, lookups>>

callVars == <<pc, ctxDone, cancelAt, stmtOpen, rowsOpen, stmtAcq, rowsAcq,
              rows, yielded, ret>>
searchVars == <<store, req, spans, meta, prevPage, sess>>
tagsVars == <<tags>>
tagValuesVars == <<tagList, tagIdx, values, result, lookups>>

----------------------------------------------------------------------------
(* Bounds of the model. *)

MaxSpans == 2       \* spans the table can hold
MaxPage == 2        \* largest page size a request asks for
MaxTagRows == 2     \* rows the tag discovery query yields
MaxValueRows == 3   \* rows a single tag-value query yields
MaxTags == 2        \* length of the tags argument of GetTagsValues
MaxBatchRows == 1   \* rows a tag-value query yields inside GetTagsValues

----------------------------------------------------------------------------
(* Decimal strings: a token is a sequence of characters. *)

Digit == <<"0", "1", "2", "3", "4", "5", "6", "7", "8", "9">>

RECURSIVE FormatInt(_)
(* fmt.Sprintf("%d", n) for n >= 0 *)
FormatInt(n) ==
    IF n < 10 THEN <<Digit[n + 1]>>
    ELSE FormatInt(n \div 10) \o <<Digit[(n % 10) + 1]>>

IsDigit(c) == \E d \in 1..10 : Digit[d] = c

DigitVal(c) == (CHOOSE d \in 1..10 : Digit[d] = c) - 1

(* decode(token) rejects a token that is not a decimal number *)
ValidCursor(s) == Len(s) > 0 /\ \A i \in 1..Len(s) : IsDigit(s[i])

RECURSIVE ParseInt(_)
ParseInt(s) ==
    IF Len(s) = 0 THEN 0
    ELSE ParseInt(SubSeq(s, 1, Len(s) - 1)) * 10 + DigitVal(s[Len(s)])

----------------------------------------------------------------------------
(* The spans table and the search request. *)

StartTimes == {50, 100}
Durations == {5, 50}

(* A stored row: bad marks a row whose Scan or toInternalSpan fails. *)
SpanRows == [start : StartTimes, dur : Durations, bad : BOOLEAN]

NoCursor == [present |-> FALSE, token |-> <<>>]
Cursor(t) == [present |-> TRUE, token |-> t]

NoMeta == [present |-> FALSE, nextToken |-> <<>>]

SupportedOps == {"equals", "gt", "gte", "lt", "lte"}

FilterSets ==
    { <<>>,
      <<[key |-> "duration", op |-> "gte", value |-> 50]>>,
      <<[key |-> "duration", op |-> "regex", value |-> 50]>> }

SortSpecs == {"", "duration"}

NoRequest == [filters |-> <<>>, sort |-> "", cursor |-> NoCursor, pageSize |-> 1]

FieldVal(row, key) == IF key = "duration" THEN row.dur ELSE row.start

FilterHolds(f, row) ==
    CASE f.op = "equals" -> FieldVal(row, f.key) = f.value
      [] f.op = "gt" -> FieldVal(row, f.key) > f.value
      [] f.op = "gte" -> FieldVal(row, f.key) >= f.value
      [] f.op = "lt" -> FieldVal(row, f.key) < f.value
      [] f.op = "lte" -> FieldVal(row, f.key) <= f.value
      [] OTHER -> FALSE

(* searchQueryResponse.getSort(): the effective sort field *)
GetSort(r) == IF r.sort = "duration" THEN "duration" ELSE "startTimeUnixNano"

SortVal(row, sort) == FieldVal(row, sort)

(* buildSearchQuery fails on an unknown operator or a malformed cursor *)
BuildSearchFails(r) ==
    \/ \E k \in 1..Len(r.filters) : r.filters[k].op \notin SupportedOps
    \/ r.cursor.present /\ ~ValidCursor(r.cursor.token)

(* The WHERE clause: every filter, and the boundary of the cursor. *)
Selected(st, r) ==
    { i \in 1..Len(st) :
        /\ \A k \in 1..Len(r.filters) : FilterHolds(r.filters[k], st[i])
        /\ r.cursor.present =>
             SortVal(st[i], GetSort(r)) < ParseInt(r.cursor.token) }

Min(a, b) == IF a < b THEN a ELSE b

(* ORDER BY sort DESC LIMIT pageSize: every order of the selected rows *)
(* that descends in the sort field (ties in any order), cut to a page. *)
QueryPages(st, r) ==
    LET sel == Selected(st, r)
        n == Cardinality(sel)
        orders == { f \in [1..n -> sel] :
                      /\ \A a, b \in 1..n : a # b => f[a] # f[b]
                      /\ \A a \in 1..n : a < n =>
                           SortVal(st[f[a]], GetSort(r)) >=
                             SortVal(st[f[a + 1]], GetSort(r)) }
    IN  { SubSeq(f, 1, Min(n, r.pageSize)) : f \in orders }

----------------------------------------------------------------------------
(* Search: the row loop and the continuation token. *)

(* the row loop without its two error checks *)
AppendSpanUnchecked(acc, id, row) == Append(acc, id)

(* lines 91-100: a row whose Scan or toInternalSpan fails is skipped; a *)
(* row that converts gives a span (never a nil one, line 106)          *)
AppendSpan(acc, id, row) == IF row.bad THEN acc ELSE Append(acc, id)

(* the token block without its length check *)
EmitsTokenAlways(n) == n >= 0

(* line 103: a token is built when the response holds a span *)
EmitsToken(n) == n > 0

(* the token taken from the first span of the page *)
FirstIndex(n) == 1

(* line 104: the span the token is taken from *)
LastIndex(n) == n

(* the token block without its switch on the sort field *)
TokenValueStartOnly(row, sort) == row.start

(* lines 107-112: the value the token encodes *)
TokenValue(row, sort) ==
    IF sort = "duration" THEN row.dur ELSE row.start

NextMeta(st, acc, sort) ==
    IF EmitsToken(Len(acc))
    THEN IF Len(acc) = 0 THEN [present |-> TRUE, nextToken |-> <<>>]
         ELSE [present |-> TRUE,
               nextToken |-> FormatInt(TokenValue(st[acc[LastIndex(Len(acc))]], sort))]
    ELSE NoMeta

(* a handle whose Close is not deferred *)
DeferCloseMissing(n) == n

(* defer stmt.Close() / defer rows.Close(): handles left open on return *)
DeferClose(n) == n - 1

(* the deferred Close calls an error return runs: none when PrepareContext *)
(* failed, stmt.Close() when QueryContext failed                           *)
StmtAfterFail(stage, n) == IF stage = "query" THEN DeferClose(n) ELSE n

NoRet == [status |-> "none", stage |-> ""]
OkRet == [status |-> "ok", stage |-> ""]
ErrRet(stage) == [status |-> "err", stage |-> stage]

NoSess == [active |-> FALSE, first |-> {}, returned |-> <<>>, clean |-> TRUE]


----------------------------------------------------------------------------
(* The caller and the store. *)

(* A span is written to the table; a query in flight reads the rows it *)
(* selected when it started, so writes are taken between calls.        *)
Insert ==
    /\ endpoint = "Search"
    /\ pc = "idle"
    /\ Len(store) < MaxSpans
    /\ \E row \in SpanRows : store' = Append(store, row)
    /\ UNCHANGED <<endpoint, callVars, req, spans, meta, prevPage, sess,
                   tagsVars, tagValuesVars>>

(* The context of the call in flight is cancelled. *)
Cancel ==
    /\ pc # "idle"
    /\ ~ctxDone
    /\ ctxDone' = TRUE
    /\ cancelAt' = pc
    /\ sess' = [sess EXCEPT !.clean = FALSE]
    /\ UNCHANGED <<endpoint, pc, stmtOpen, rowsOpen, stmtAcq, rowsAcq, rows,
                   yielded, ret, store, req, spans, meta, prevPage,
                   tagsVars, tagValuesVars>>

(* What every call sets up on entry. *)
FreshContext ==
    /\ ctxDone' = FALSE
    /\ cancelAt' = "none"

EnterCall ==
    /\ stmtAcq' = 0
    /\ rowsAcq' = 0
    /\ rows' = <<>>
    /\ yielded' = <<>>

----------------------------------------------------------------------------
(* Search, lines 45-119. *)

(* lines 46-51: the response is set up and the query is built *)
SearchEnter(r, followed) ==
    /\ FreshContext
    /\ EnterCall
    /\ req' = r
    /\ spans' = <<>>
    /\ meta' = NoMeta
    /\ prevPage' = followed
    /\ IF BuildSearchFails(r)
       THEN /\ pc' = "idle"
            /\ ret' = ErrRet("build")
            /\ sess' = NoSess
       ELSE /\ pc' = "prepare"
            /\ ret' = NoRet
            /\ sess' = IF r.cursor.present THEN sess
                       ELSE [active |-> TRUE,
                             first |-> Selected(store, r),
                             returned |-> <<>>,
                             clean |-> TRUE]
    /\ UNCHANGED <<endpoint, stmtOpen, rowsOpen, store, tagsVars, tagValuesVars>>

(* The caller starts a search: no cursor, or a cursor it made up. *)
SearchNew ==
    /\ endpoint = "Search"
    /\ pc = "idle"
    /\ \E f \in FilterSets, s \in SortSpecs, n \in 1..MaxPage,
          c \in {NoCursor, Cursor(<<"x">>)} :
         SearchEnter([filters |-> f, sort |-> s, cursor |-> c, pageSize |-> n],
                     <<>>)

(* The caller repeats the search with the token of the last response. *)
SearchFollow ==
    /\ endpoint = "Search"
    /\ pc = "idle"
    /\ ret.status = "ok"
    /\ sess.active
    /\ meta.present
    /\ SearchEnter([req EXCEPT !.cursor = Cursor(meta.nextToken)], spans)

(* Search returns an error: the response is nil, the deferred Close calls run *)
SearchFail(stage) ==
    /\ pc' = "idle"
    /\ ret' = ErrRet(stage)
    /\ stmtOpen' = StmtAfterFail(stage, stmtOpen)
    /\ rowsOpen' = rowsOpen
    /\ rows' = <<>>
    /\ spans' = <<>>
    /\ meta' = NoMeta
    /\ sess' = NoSess
    /\ UNCHANGED <<endpoint, ctxDone, cancelAt, stmtAcq, rowsAcq, yielded,
                   store, req, prevPage, tagsVars, tagValuesVars>>

(* lines 52-56: PrepareContext *)
SearchPrepare ==
    /\ endpoint = "Search"
    /\ pc = "prepare"
    /\ \/ /\ ~ctxDone
          /\ pc' = "query"
          /\ stmtOpen' = stmtOpen + 1
          /\ stmtAcq' = stmtAcq + 1
          /\ UNCHANGED <<endpoint, ctxDone, cancelAt, rowsOpen, rowsAcq, rows,
                         yielded, ret, searchVars, tagsVars, tagValuesVars>>
       \/ SearchFail("prepare")

(* lines 57-61: QueryContext *)
SearchQuery ==
    /\ endpoint = "Search"
    /\ pc = "query"
    /\ \/ /\ ~ctxDone
          /\ pc' = "rows"
          /\ rowsOpen' = rowsOpen + 1
          /\ rowsAcq' = rowsAcq + 1
          /\ rows' \in QueryPages(store, req)
          /\ UNCHANGED <<endpoint, ctxDone, cancelAt, stmtOpen, stmtAcq,
                         yielded, ret, searchVars, tagsVars, tagValuesVars>>
       \/ SearchFail("query")

(* lines 63-102: rows.Next() delivers a row, which is decoded or skipped. *)
(* After a cancellation the cursor is closed asynchronously, so a row may *)
(* still be delivered.                                                    *)
SearchRow ==
    /\ endpoint = "Search"
    /\ pc = "rows"
    /\ rows # <<>>
    /\ spans' = AppendSpan(spans, Head(rows), store[Head(rows)])
    /\ yielded' = Append(yielded, Head(rows))
    /\ rows' = Tail(rows)
    /\ UNCHANGED <<endpoint, pc, ctxDone, cancelAt, stmtOpen, rowsOpen,
                   stmtAcq, rowsAcq, ret, store, req, meta, prevPage, sess,
                   tagsVars, tagValuesVars>>

(* lines 63, 103-118: rows.Next() returns false, at the end of the rows or *)
(* because the context is done; rows.Err() is not read; the token is set   *)
(* and the response returned.                                              *)
SearchReturn ==
    /\ endpoint = "Search"
    /\ pc = "rows"
    /\ rows = <<>> \/ ctxDone
    /\ meta' = NextMeta(store, spans, GetSort(req))
    /\ pc' = "idle"
    /\ ret' = OkRet
    /\ stmtOpen' = DeferClose(stmtOpen)
    /\ rowsOpen' = DeferClose(rowsOpen)
    /\ sess' = [sess EXCEPT !.returned = @ \o spans]
    /\ UNCHANGED <<endpoint, ctxDone, cancelAt, stmtAcq, rowsAcq, rows,
                   yielded, store, req, spans, prevPage, tagsVars,
                   tagValuesVars>>

SearchNext ==
    \/ Insert
    \/ SearchNew
    \/ SearchFollow
    \/ SearchPrepare
    \/ SearchQuery
    \/ SearchRow
    \/ SearchReturn

----------------------------------------------------------------------------
(* GetAvailableTags, lines 121-156. *)

Nil == "<nil>"

(* the static registry, a Go map: its iteration order is not fixed *)
StaticTagTypeMap == [n \in {"span.name", "span.kind"} |-> "Str"]

SeqsUpTo(S, n) == UNION { [1..k -> S] : k \in 0..n }

Injective(f) == \A a, b \in DOMAIN f : a # b => f[a] # f[b]

(* lines 123-128: one entry per key of the registry, in any order *)
StaticOrders ==
    { [k \in DOMAIN f |-> [name |-> f[k], type |-> StaticTagTypeMap[f[k]]]] :
        f \in { g \in [1..Cardinality(DOMAIN StaticTagTypeMap) ->
                          DOMAIN StaticTagTypeMap] : Injective(g) } }

(* A row of the discovery query; bad marks a row whose Scan fails; a *)
(* NULL column reads as the empty string.                            *)
TagRows ==
    [tableKey : {"", "span", "resource"}, tagName : {"", "name"},
     tagType : {"Str", "Num"}, bad : {FALSE}]
    \cup {[tableKey |-> "span", tagName |-> "kind", tagType |-> "Str",
           bad |-> TRUE]}

(* buildDynamicTagsQuery: distinct (source, field) pairs *)
DiscoveryResults ==
    { q \in SeqsUpTo(TagRows, MaxTagRows) :
        \A a, b \in DOMAIN q :
          a # b => <<q[a].tableKey, q[a].tagName>> #
                   <<q[b].tableKey, q[b].tagName>> }

(* line 151: fmt.Sprintf("%s.%s", tableKey, tagName) *)
QualifiedName(tableKey, tagName) == tableKey \o "." \o tagName

(* lines 142-153: the body of the row loop *)
AppendTag(acc, row) ==
    IF row.bad THEN acc
    ELSE IF row.tableKey = "" \/ row.tagName = "" THEN acc
    ELSE Append(acc, [name |-> QualifiedName(row.tableKey, row.tagName),
                      type |-> row.tagType])

(* lines 122-129 *)
TagsEnter ==
    /\ endpoint = "GetAvailableTags"
    /\ pc = "idle"
    /\ FreshContext
    /\ EnterCall
    /\ tags' \in StaticOrders
    /\ pc' = "prepare"
    /\ ret' = NoRet
    /\ UNCHANGED <<endpoint, stmtOpen, rowsOpen, searchVars, tagValuesVars>>

TagsFail(stage) ==
    /\ pc' = "idle"
    /\ ret' = ErrRet(stage)
    /\ stmtOpen' = StmtAfterFail(stage, stmtOpen)
    /\ rowsOpen' = rowsOpen
    /\ rows' = <<>>
    /\ tags' = <<>>
    /\ UNCHANGED <<endpoint, ctxDone, cancelAt, stmtAcq, rowsAcq, yielded,
                   searchVars, tagValuesVars>>

(* lines 131-135 *)
TagsPrepare ==
    /\ endpoint = "GetAvailableTags"
    /\ pc = "prepare"
    /\ \/ /\ ~ctxDone
          /\ pc' = "query"
          /\ stmtOpen' = stmtOpen + 1
          /\ stmtAcq' = stmtAcq + 1
          /\ UNCHANGED <<endpoint, ctxDone, cancelAt, rowsOpen, rowsAcq, rows,
                         yielded, ret, searchVars, tagsVars, tagValuesVars>>
       \/ TagsFail("prepare")

(* lines 136-140 *)
TagsQuery ==
    /\ endpoint = "GetAvailableTags"
    /\ pc = "query"
    /\ \/ /\ ~ctxDone
          /\ pc' = "rows"
          /\ rowsOpen' = rowsOpen + 1
          /\ rowsAcq' = rowsAcq + 1
          /\ rows' \in DiscoveryResults
          /\ UNCHANGED <<endpoint, ctxDone, cancelAt, stmtOpen, stmtAcq,
                         yielded, ret, searchVars, tagsVars, tagValuesVars>>
       \/ TagsFail("query")

(* lines 141-154 *)
TagsRow ==
    /\ endpoint = "GetAvailableTags"
    /\ pc = "rows"
    /\ rows # <<>>
    /\ tags' = AppendTag(tags, Head(rows))
    /\ yielded' = Append(yielded, Head(rows))
    /\ rows' = Tail(rows)
    /\ UNCHANGED <<endpoint, pc, ctxDone, cancelAt, stmtOpen, rowsOpen,
                   stmtAcq, rowsAcq, ret, searchVars, tagValuesVars>>

(* lines 141, 155 *)
TagsReturn ==
    /\ endpoint = "GetAvailableTags"
    /\ pc = "rows"
    /\ rows = <<>> \/ ctxDone
    /\ pc' = "idle"
    /\ ret' = OkRet
    /\ stmtOpen' = DeferClose(stmtOpen)
    /\ rowsOpen' = DeferClose(rowsOpen)
    /\ UNCHANGED <<endpoint, ctxDone, cancelAt, stmtAcq, rowsAcq, rows,
                   yielded, searchVars, tagsVars, tagValuesVars>>

TagsNext ==
    \/ TagsEnter
    \/ TagsPrepare
    \/ TagsQuery
    \/ TagsRow
    \/ TagsReturn

----------------------------------------------------------------------------
(* GetTagValues, lines 171-210, and GetTagsValues, lines 158-169. *)

TagNames == {"http.method", "span.kind", ""}

(* buildTagValuesQuery fails on a tag it cannot resolve to a column *)
BuildTagValuesFails(tag) == tag = ""

(* A row (value, count) of the distinct-value query; bad marks a row *)
(* whose Scan fails.                                                *)
TagValueRows ==
    { [value |-> "GET", count |-> 12, bad |-> FALSE],
      [value |-> "POST", count |-> 3, bad |-> FALSE],
      [value |-> Nil, count |-> 5, bad |-> FALSE],
      [value |-> "GET", count |-> 0, bad |-> TRUE] }

TagValueResults ==
    SeqsUpTo(TagValueRows,
             IF endpoint = "GetTagsValues" THEN MaxBatchRows ELSE MaxValueRows)

(* the row loop without its nil check *)
AppendValueKeepNull(acc, row) ==
    IF row.bad THEN acc
    ELSE Append(acc, [value |-> row.value, count |-> row.count])

(* lines 191-204: the body of the row loop *)
AppendValue(acc, row) ==
    IF row.bad THEN acc
    ELSE IF row.value = Nil THEN acc
    ELSE Append(acc, [value |-> row.value, count |-> row.count])

(* line 166: result[tag] = tagValueResponse *)
MapPut(m, k, v) == [t \in DOMAIN m \cup {k} |-> IF t = k THEN v ELSE m[t]]

(* a batch that stops at the first failed lookup *)
BreakAfterFailedLookup(idx, list) == Len(list) + 1

(* lines 162-165: the batch logs a failed lookup and goes on *)
AfterFailedLookup(idx, list) == idx + 1

(* where GetTagValues returns to: its caller, or the loop of the batch *)
ReturnTo == IF endpoint = "GetTagsValues" THEN "loop" ELSE "idle"

(* lines 172-177: GetTagValues is entered with tag *)
TagValuesEnter(tag, idx, hist) ==
    /\ EnterCall
    /\ values' = <<>>
    /\ IF BuildTagValuesFails(tag)
       THEN /\ pc' = ReturnTo
            /\ ret' = ErrRet("build")
            /\ tagIdx' = IF endpoint = "GetTagsValues"
                         THEN AfterFailedLookup(idx, tagList) ELSE idx
            /\ lookups' = Append(hist, [tag |-> tag, ok |-> FALSE])
       ELSE /\ pc' = "prepare"
            /\ ret' = NoRet
            /\ tagIdx' = idx
            /\ lookups' = hist
    /\ UNCHANGED <<endpoint, stmtOpen, rowsOpen, searchVars, tagsVars, result>>

(* The caller looks up the values of one tag. *)
TagValuesCall ==
    /\ endpoint = "GetTagValues"
    /\ pc = "idle"
    /\ FreshContext
    /\ \E tag \in TagNames :
         /\ tagList' = <<tag>>
         /\ TagValuesEnter(tag, 1, <<>>)

(* lines 158-159: the caller looks up the values of a list of tags *)
BatchCall ==
    /\ endpoint = "GetTagsValues"
    /\ pc = "idle"
    /\ tagList' \in SeqsUpTo(TagNames, MaxTags)
    /\ tagIdx' = 1
    /\ result' = <<>>
    /\ lookups' = <<>>
    /\ pc' = "loop"
    /\ ret' = NoRet
    /\ FreshContext
    /\ values' = <<>>
    /\ yielded' = <<>>
    /\ rows' = <<>>
    /\ stmtAcq' = 0
    /\ rowsAcq' = 0
    /\ UNCHANGED <<endpoint, stmtOpen, rowsOpen, searchVars, tagsVars>>

(* lines 160-161: the next tag of the list is looked up *)
BatchLookup ==
    /\ endpoint = "GetTagsValues"
    /\ pc = "loop"
    /\ tagIdx <= Len(tagList)
    /\ tagList' = tagList
    /\ UNCHANGED <<ctxDone, cancelAt>>
    /\ TagValuesEnter(tagList[tagIdx], tagIdx, lookups)

(* line 168: the batch returns its map and no error *)
BatchReturn ==
    /\ endpoint = "GetTagsValues"
    /\ pc = "loop"
    /\ tagIdx > Len(tagList)
    /\ pc' = "idle"
    /\ ret' = OkRet
    /\ UNCHANGED <<endpoint, ctxDone, cancelAt, stmtOpen, rowsOpen, stmtAcq,
                   rowsAcq, rows, yielded, searchVars, tagsVars,
                   tagValuesVars>>

(* GetTagValues returns an error, which the batch skips *)
TagValuesFail(stage) ==
    /\ pc' = ReturnTo
    /\ ret' = ErrRet(stage)
    /\ stmtOpen' = StmtAfterFail(stage, stmtOpen)
    /\ rowsOpen' = rowsOpen
    /\ rows' = <<>>
    /\ values' = <<>>
    /\ tagIdx' = IF endpoint = "GetTagsValues"
                 THEN AfterFailedLookup(tagIdx, tagList) ELSE tagIdx
    /\ lookups' = Append(lookups, [tag |-> tagList[tagIdx], ok |-> FALSE])
    /\ UNCHANGED <<endpoint, ctxDone, cancelAt, stmtAcq, rowsAcq, yielded,
                   searchVars, tagsVars, tagList, result>>

(* lines 178-183 *)
TagValuesPrepare ==
    /\ endpoint \in {"GetTagValues", "GetTagsValues"}
    /\ pc = "prepare"
    /\ \/ /\ ~ctxDone
          /\ pc' = "query"
          /\ stmtOpen' = stmtOpen + 1
          /\ stmtAcq' = stmtAcq + 1
          /\ UNCHANGED <<endpoint, ctxDone, cancelAt, rowsOpen, rowsAcq, rows,
                         yielded, ret, searchVars, tagsVars, tagValuesVars>>
       \/ TagValuesFail("prepare")

(* lines 184-189 *)
TagValuesQuery ==
    /\ endpoint \in {"GetTagValues", "GetTagsValues"}
    /\ pc = "query"
    /\ \/ /\ ~ctxDone
          /\ pc' = "rows"
          /\ rowsOpen' = rowsOpen + 1
          /\ rowsAcq' = rowsAcq + 1
          /\ rows' \in TagValueResults
          /\ UNCHANGED <<endpoint, ctxDone, cancelAt, stmtOpen, stmtAcq,
                         yielded, ret, searchVars, tagsVars, tagValuesVars>>
       \/ TagValuesFail("query")

(* lines 190-205 *)
TagValuesRow ==
    /\ endpoint \in {"GetTagValues", "GetTagsValues"}
    /\ pc = "rows"
    /\ rows # <<>>
    /\ values' = AppendValue(values, Head(rows))
    /\ yielded' = Append(yielded, Head(rows))
    /\ rows' = Tail(rows)
    /\ UNCHANGED <<endpoint, pc, ctxDone, cancelAt, stmtOpen, rowsOpen,
                   stmtAcq, rowsAcq, ret, searchVars, tagsVars, tagList,
                   tagIdx, result, lookups>>

(* lines 190, 207-209, and lines 166-167 of the batch *)
TagValuesReturn ==
    /\ endpoint \in {"GetTagValues", "GetTagsValues"}
    /\ pc = "rows"
    /\ rows = <<>> \/ ctxDone
    /\ pc' = ReturnTo
    /\ ret' = OkRet
    /\ stmtOpen' = DeferClose(stmtOpen)
    /\ rowsOpen' = DeferClose(rowsOpen)
    /\ IF endpoint = "GetTagsValues"
       THEN /\ result' = MapPut(result, tagList[tagIdx], values)
            /\ tagIdx' = tagIdx + 1
       ELSE UNCHANGED <<result, tagIdx>>
    /\ lookups' = Append(lookups, [tag |-> tagList[tagIdx], ok |-> TRUE])
    /\ UNCHANGED <<endpoint, ctxDone, cancelAt, stmtAcq, rowsAcq, rows,
                   yielded, searchVars, tagsVars, tagList, values>>

TagValuesNext ==
    \/ TagValuesCall
    \/ BatchCall
    \/ BatchLookup
    \/ BatchReturn
    \/ TagValuesPrepare
    \/ TagValuesQuery
    \/ TagValuesRow
    \/ TagValuesReturn

----------------------------------------------------------------------------

InitCall ==
    /\ pc = "idle"
    /\ ctxDone = FALSE
    /\ cancelAt = "none"
    /\ stmtOpen = 0
    /\ rowsOpen = 0
    /\ stmtAcq = 0
    /\ rowsAcq = 0
    /\ rows = <<>>
    /\ yielded = <<>>
    /\ ret = NoRet

(* The reader after NewSqliteSpanReader. Requests share no state in the *)
(* reader (section 5), so a behaviour follows one kind of request.      *)
Init ==
    /\ endpoint \in {"Search", "GetAvailableTags", "GetTagValues",
                    "GetTagsValues"}
    /\ InitCall
    /\ store = <<>>
    /\ req = NoRequest
    /\ spans = <<>>
    /\ meta = NoMeta
    /\ prevPage = <<>>
    /\ sess = NoSess
    /\ tags = <<>>
    /\ tagList = <<>>
    /\ tagIdx = 0
    /\ values = <<>>
    /\ result = <<>>
    /\ lookups = <<>>

Next ==
    \/ Cancel
    \/ SearchNext
    \/ TagsNext
    \/ TagValuesNext

Spec == Init /\ [][Next]_vars

----------------------------------------------------------------------------
(* Properties. *)

Range(q) == { q[i] : i \in DOMAIN q }

SearchReturned == endpoint = "Search" /\ pc = "idle" /\ ret.status = "ok"

NonDecreasing(st, sort) ==
    \A a, b \in 1..Len(st) : a < b => SortVal(st[a], sort) <= SortVal(st[b], sort)

Occurrences(q, x) == Cardinality({ k \in DOMAIN q : q[k] = x })

C2_PaginationComplete ==
    ( /\ SearchReturned
      /\ sess.active
      /\ sess.clean
      /\ spans = <<>>
      /\ NonDecreasing(store, GetSort(req))
      /\ \A i \in 1..Len(store) : ~store[i].bad )
    => /\ \A i \in sess.first : Occurrences(sess.returned, i) = 1
       /\ \A i \in Range(sess.returned) : Occurrences(sess.returned, i) = 1

(* C3: a successful Search whose response holds a span carries a token,   *)
(* the canonical decimal string of the duration of the last span when the *)
(* effective sort field is duration and of its start time otherwise;      *)
(* start times 100, 50 under the default sort give the token "50".        *)
Canonical(t) == ValidCursor(t) /\ (Len(t) > 1 => t[1] # "0")

C3_TokenOfLastSpan ==
    (SearchReturned /\ spans # <<>>) =>
        LET last == store[spans[Len(spans)]]
        IN  /\ meta.present
            /\ Canonical(meta.nextToken)
            /\ ParseInt(meta.nextToken) =
                 (IF GetSort(req) = "duration" THEN last.dur ELSE last.start)
            /\ ( /\ GetSort(req) = "startTimeUnixNano"
                 /\ Len(spans) = 2
                 /\ store[spans[1]].start = 100
                 /\ last.start = 50 ) => meta.nextToken = <<"5", "0">>

C3_Witness ==
    /\ SearchReturned
    /\ req.sort = ""
    /\ Len(spans) = 2
    /\ store[spans[1]].start = 100
    /\ store[spans[2]].start = 50
    /\ store[spans[2]].dur = 5

(* C4 as claimed: the response carries no token when it holds fewer spans *)
(* than the page size asked for.                                          *)
C4_NoTokenWhenNotFull ==
    (SearchReturned /\ Len(spans) < req.pageSize) => ~meta.present

(* C4 as amended: the response carries no token when it holds no span. *)
C4_NoTokenWhenEmpty ==
    (SearchReturned /\ Len(spans) = 0) => ~meta.present

C4_Witness ==
    /\ SearchReturned
    /\ Len(spans) = 0
    /\ yielded # <<>>

(* C5: a Search, tag or tag-value call whose context is cancelled while   *)
(* the query runs never returns success with only the rows read before    *)
(* the cancellation: no row its response would hold is left unread.       *)
Contributes(row) ==
    CASE endpoint = "Search" -> AppendSpan(<<>>, row, store[row]) # <<>>
      [] endpoint = "GetAvailableTags" -> AppendTag(<<>>, row) # <<>>
      [] OTHER -> AppendValue(<<>>, row) # <<>>

C5_NoPartialResponse ==
    ( /\ endpoint \in {"Search", "GetAvailableTags", "GetTagValues"}
      /\ pc = "idle"
      /\ ret.status = "ok"
      /\ cancelAt \in {"prepare", "query", "rows"} )
    => \A k \in DOMAIN rows : ~Contributes(rows[k])

(* C6: a Search whose cursor delivered rows succeeds, and its response    *)
(* holds exactly the delivered rows that decode, in the order delivered.  *)
Decodes(id) == ~store[id].bad

C6_SkipsUndecodable ==
    /\ (endpoint = "Search" /\ pc = "idle" /\ yielded # <<>>) => ret.status = "ok"
    /\ SearchReturned => spans = SelectSeq(yielded, Decodes)

C6_Witness ==
    /\ SearchReturned
    /\ spans # <<>>
    /\ \E k \in DOMAIN yielded : store[yielded[k]].bad
    /\ \E k \in DOMAIN yielded : k > 1 /\ ~store[yielded[k]].bad

(* C7: the list GetAvailableTags returns holds no two entries of the same *)
(* qualified name.                                                        *)
C7_NoDuplicateNames ==
    (endpoint = "GetAvailableTags" /\ pc = "idle" /\ ret.status = "ok") =>
        \A a, b \in DOMAIN tags : a # b => tags[a].name # tags[b].name

(* C8: GetTagValues returns no entry of a null value: its result is the   *)
(* delivered rows (value, count) of a non-null value, in the order        *)
(* delivered; (GET,12), (POST,3), (null,5) give [{GET,12},{POST,3}].      *)
TagValuesReturned ==
    /\ \/ endpoint = "GetTagValues" /\ pc = "idle"
       \/ endpoint = "GetTagsValues" /\ pc = "loop"
    /\ ret.status = "ok"

Scanned(row) == ~row.bad /\ row.value # Nil

C8_NoNullValues ==
    TagValuesReturned =>
        LET kept == SelectSeq(yielded, Scanned)
        IN  /\ \A k \in DOMAIN values : values[k].value # Nil
            /\ Len(values) = Len(kept)
            /\ \A k \in DOMAIN values :
                 /\ values[k].value = kept[k].value
                 /\ values[k].count = kept[k].count

C8_Witness ==
    /\ TagValuesReturned
    /\ yielded = << [value |-> "GET", count |-> 12, bad |-> FALSE],
                    [value |-> "POST", count |-> 3, bad |-> FALSE],
                    [value |-> Nil, count |-> 5, bad |-> FALSE] >>
    /\ values = << [value |-> "GET", count |-> 12],
                   [value |-> "POST", count |-> 3] >>

(* C9: GetTagsValues returns no error; it has looked up every tag of the  *)
(* list, in order, and the keys of its map are the tags whose lookup      *)
(* returned no error.                                                     *)
BatchReturned == endpoint = "GetTagsValues" /\ pc = "idle" /\ ret.status # "none"

C9_BatchNeverFails ==
    BatchReturned =>
        /\ ret.status = "ok"
        /\ Len(lookups) = Len(tagList)
        /\ \A k \in DOMAIN lookups : lookups[k].tag = tagList[k]
        /\ DOMAIN result = { lookups[k].tag : k \in { j \in DOMAIN lookups : lookups[j].ok } }

C9_Witness ==
    /\ BatchReturned
    /\ Len(tagList) = 2
    /\ ~lookups[1].ok
    /\ lookups[2].ok
    /\ DOMAIN result = {tagList[2]}

(* C10: a call holds at most one statement and one row cursor, has        *)
(* released them when it returns, whatever the exit, and has acquired     *)
(* none when it failed building its query.                                *)
BetweenCalls == pc \in {"idle", "loop"}

C10_HandlesReleased ==
    /\ stmtAcq <= 1 /\ rowsAcq <= 1
    /\ stmtOpen <= 1 /\ rowsOpen <= 1
    /\ BetweenCalls => stmtOpen = 0 /\ rowsOpen = 0
    /\ (BetweenCalls /\ ret = ErrRet("build")) => stmtAcq = 0 /\ rowsAcq = 0

C10_Witness ==
    /\ BetweenCalls
    /\ ret = ErrRet("query")
    /\ ctxDone
    /\ stmtAcq = 1
    /\ stmtOpen = 0

=============================================================================
